---- MODULE Spec2Model ----
(***************************************************************************)
(* RedisRateLimiter (langchain_redis_rate_limiter/limiter.py): a token     *)
(* bucket kept in a Redis hash and updated by one Lua script, and the      *)
(* acquire / aacquire polling loops around it.                             *)
(*                                                                         *)
(* Numbers.  The script computes in floating point; the model computes     *)
(* exactly, in fixed point.  Time is counted in ticks, TicksPerSecond of   *)
(* them to the second (the script has 1000000).  Token amounts are counted *)
(* in units of 1/One token, so the literal 1 of the script is One.  A rate *)
(* (requests_per_second) is held in token units per tick, so that          *)
(* elapsed * requests_per_second is the script's product, exactly.         *)
(***************************************************************************)
EXTENDS Integers, Sequences, FiniteSets, TLC

\* ------------------------------------------------------------- bounds
\* sub-second resolution of the store clock (1000000 in the script)
TicksPerSecond == 2
\* the clock is explored for MaxTicks ticks after each multiple of a day
MaxTicks == 4
\* how many day-long idle periods are explored
MaxDays == 1
\* script invocations explored within one acquire / aacquire call
MaxPolls == 3
\* backward steps of the store clock explored
MaxBackSteps == 1
MaxCalls == 3
\* attempts recorded of a run made at the store time of a key's creation
MaxRun == 4

\* ------------------------------------------------------------- constants
\* the literal 1 of `tokens >= 1` and `tokens - 1`, in token units
One == 4
\* redis.call('expire', key, 86400)
ExpireSeconds == 86400

Callers == {"c1", "c2"}
Limiters == {"la", "lb"}

\* values of max_bucket_size explored, in token units: -1, 0, 1/2, 1, 3/2, 2
BucketSizes == {0 - One, 0, One \div 2, One, One + (One \div 2), 2 * One}
\* values of requests_per_second explored, in token units per tick
Rates == {0 - 1, 0, 1, 2, One}

\* Lua nil / Python None: a value that is no number, string or hash
nil == [nil |-> TRUE]
\* a call that has not returned
NoReturn == nil
\* a call that returned v
Returned(v) == [value |-> v]

VARIABLES
    time_result,  \* the store clock, as redis TIME returns it: <<seconds, sub-second part>>
    store,        \* the store: key -> nil, or the hash with its expiry
    limiter,      \* the limiter objects: their constructor arguments
    pc,           \* where each caller is in acquire / aacquire
    call,         \* the call each caller is in: limiter, method, blocking
    trace,        \* what each call did so far: script invocations and sleeps
    ret,          \* the value each call returned
    grants,       \* per key, the store times of the grants since the key was
                  \* created and the clock last stepped back (history)
    drained,      \* per key, the store time at which the bucket was emptied to
                  \* exactly 0 and not granted since (history), or nil
    run,          \* per key, the attempts made at the store time of the key's
                  \* creation, while no other store time was read (history)
    last,         \* the latest script execution: what it read and wrote (history)
    back_steps,   \* how often the store clock was set back (history)
    calls,        \* how many calls were made (history)
    began,        \* per caller, the store time the first script execution of its
                  \* call read, and whether it found no bucket (history)
    credited      \* per key, the refill added to the bucket and the smallest and
                  \* largest store time read, over the executions so far
                  \* (history); nil where it is not recorded

vars == <<time_result, store, limiter, pc, call, trace, ret, grants, drained, run, last, back_steps, calls, began, credited>>

\* ------------------------------------------------------------- the limiter object

\* __init__: the fields a limiter keeps
Limiter(prefix, rps, every, size) ==
    [key_prefix |-> prefix, requests_per_second |-> rps,
     check_every_n_seconds |-> every, max_bucket_size |-> size]

\* mutant: the default prefix instead of the limiter's own
BucketKeyDefault(self) == "a" \o ":rate_limit"

\* key = f"{self.key_prefix}:rate_limit"
BucketKey(self) == self.key_prefix \o ":rate_limit"

\* the arguments of client.eval in _execute_lua
ExecuteLuaArgs(self) ==
    [script |-> "_LUA_SCRIPT", numkeys |-> 1, key |-> BucketKey(self),
     argv |-> <<self.max_bucket_size, self.requests_per_second>>]

\* mutant: the two script arguments in the wrong order
ExecuteLuaAsyncArgsSwapped(self) ==
    [script |-> "_LUA_SCRIPT", numkeys |-> 1, key |-> BucketKey(self),
     argv |-> <<self.requests_per_second, self.max_bucket_size>>]

\* the arguments of client.eval in _execute_lua_async
ExecuteLuaAsyncArgs(self) ==
    [script |-> "_LUA_SCRIPT", numkeys |-> 1, key |-> BucketKey(self),
     argv |-> <<self.max_bucket_size, self.requests_per_second>>]

Prefixes == {"a", "b"}
Keys == {p \o ":rate_limit" : p \in Prefixes}

\* ------------------------------------------------------------- the store

\* a number written by hmset is kept as its decimal string; a missing field reads as nil
tostring(n) == [str |-> n]
tonumber(s) == IF s = nil THEN nil ELSE s.str

\* current_time = tonumber(time_result[1]) + (tonumber(time_result[2]) / 1000000)
CurrentTime(tr) == tr[1] * TicksPerSecond + tr[2]

ExpireTicks == ExpireSeconds * TicksPerSecond

\* a key whose time to live has run out is gone
Live(st, key, now) == st[key] # nil /\ now < st[key].expire_at

\* mutant: the record is read whether or not its time to live has run out
HMGetExpired(st, key, now) ==
    IF st[key] # nil THEN <<st[key].tokens, st[key].last_refill>> ELSE <<nil, nil>>

\* redis.call('hmget', key, 'tokens', 'last_refill')
HMGet(st, key, now) ==
    IF Live(st, key, now) THEN <<st[key].tokens, st[key].last_refill>> ELSE <<nil, nil>>

Min(a, b) == IF a <= b THEN a ELSE b

\* mutant: elapsed is not clamped at 0
ElapsedSigned(current_time, last_refill) == current_time - last_refill

\* local elapsed = current_time - last_refill; if elapsed < 0 then elapsed = 0 end
Elapsed(current_time, last_refill) ==
    IF current_time - last_refill < 0 THEN 0 ELSE current_time - last_refill

\* mutant: no refill at all
RefillNone(elapsed, requests_per_second) == 0

\* mutant: the sub-second part of the clock counted twice over
RefillFast(elapsed, requests_per_second) == elapsed * requests_per_second * 2

\* local refill = elapsed * requests_per_second
Refill(elapsed, requests_per_second) == elapsed * requests_per_second

\* mutant: no math.min
RefilledUnbounded(max_bucket_size, tokens, refill) == tokens + refill

\* tokens = math.min(max_bucket_size, tokens + refill)
Refilled(max_bucket_size, tokens, refill) == Min(max_bucket_size, tokens + refill)

\* mutant: half a token is enough
GrantedHalf(tokens) == 2 * tokens >= One

\* mutant: any positive amount of tokens is enough
GrantedAboveZero(tokens) == tokens > 0

\* if tokens >= 1
Granted(tokens) == tokens >= One

\* mutant: the grant is not debited
NotDebited(tokens) == tokens

\* tokens = tokens - 1
Debited(tokens) == tokens - One

\* mutant: a denial writes back the tokens it read, and drops the refill
DeniedStale(tokens, read) == read

\* the else branch writes tokens as refilled (read: the value hmget gave)
Denied(tokens, read) == tokens

\* mutant: the time to live is an hour
ExpireAtHour(current_time) == current_time + 3600 * TicksPerSecond

\* redis.call('expire', key, 86400): when the key will be gone
ExpireAt(current_time) == current_time + ExpireTicks

\* _LUA_SCRIPT, one execution: the hash it leaves, what it returns, and its locals
LuaScript(st, key, argv, tr) ==
    LET max_bucket_size == tonumber(tostring(argv[1]))
        requests_per_second == tonumber(tostring(argv[2]))
        current_time == CurrentTime(tr)
        bucket == HMGet(st, key, current_time)
        \* not tokens or not last_refill: tonumber gives nil for a missing field only
        fresh == bucket[1] = nil \/ bucket[2] = nil
        tokens0 == IF fresh THEN max_bucket_size ELSE tonumber(bucket[1])
        last_refill0 == IF fresh THEN current_time ELSE tonumber(bucket[2])
        elapsed == Elapsed(current_time, last_refill0)
        refill == Refill(elapsed, requests_per_second)
        tokens1 == Refilled(max_bucket_size, tokens0, refill)
        last_refill == current_time
        granted == Granted(tokens1)
        tokens == IF granted THEN Debited(tokens1) ELSE Denied(tokens1, tokens0)
    IN  [hash |-> [tokens |-> tostring(tokens), last_refill |-> tostring(last_refill),
                   expire_at |-> ExpireAt(current_time)],
         result |-> IF granted THEN 1 ELSE 0,
         key |-> key, now |-> current_time, bucket |-> bucket, fresh |-> fresh, read |-> tokens0,
         elapsed |-> elapsed, refill |-> refill, tokens |-> tokens]

\* bool(...) in _consume / _aconsume
Bool(x) == x # 0

\* ------------------------------------------------------------- history

Now == CurrentTime(time_result)

\* the history variables after the execution ex
Observe(ex) ==
    /\ last' = [exec |-> ex, drained |-> drained[ex.key]]
    /\ grants' = [grants EXCEPT ![ex.key] =
            IF ex.result = 1
            THEN (IF ex.fresh THEN <<>> ELSE @) \o <<ex.now>>
            ELSE (IF ex.fresh THEN <<>> ELSE @)]
    /\ drained' = [drained EXCEPT ![ex.key] =
            IF ex.result = 1
            THEN (IF ex.tokens = 0 THEN [at |-> ex.now] ELSE nil)
            ELSE (IF ex.fresh THEN nil ELSE @)]
    /\ run' = [run EXCEPT ![ex.key] =
            IF ex.fresh
            THEN [at |-> ex.now, results |-> <<ex.result>>]
            ELSE IF @ # nil /\ @.at = ex.now /\ Len(@.results) < MaxRun
                 THEN [@ EXCEPT !.results = @ \o <<ex.result>>]
                 ELSE nil]
    /\ credited' =
            IF credited = nil THEN nil
            ELSE [credited EXCEPT ![ex.key] =
                    LET added == (ex.tokens + ex.result * One) - ex.read
                    IN  IF @ = nil
                        THEN [refill |-> added, lo |-> ex.now, hi |-> ex.now]
                        ELSE [refill |-> @.refill + added,
                              lo |-> Min(@.lo, ex.now),
                              hi |-> IF @.hi >= ex.now THEN @.hi ELSE ex.now]]

\* ------------------------------------------------------------- the calls

\* client.eval(...) returned out
EvalEvent(args, out) == [op |-> "eval", args |-> args, out |-> out]
\* client.eval(...) raised
EvalError(args) == [op |-> "eval", args |-> args, raised |-> TRUE]
SleepEvent(how, secs) == [op |-> "sleep", how |-> how, secs |-> secs]

Evals(t) == SelectSeq(t, LAMBDA e : e.op = "eval")
Sleeps(t) == SelectSeq(t, LAMBDA e : e.op = "sleep")

\* mutant: the blocking flag is not looked at
AcquireAlwaysBlocks(self, blocking, consumed) ==
    IF ~consumed
    THEN <<"sleeping", NoReturn, <<SleepEvent("time.sleep", self.check_every_n_seconds)>>>>
    ELSE <<"done", Returned(TRUE), <<>>>>

\* acquire after one _consume() returned consumed: <<where the call is, what it
\* returned, the sleep it starts>>
Acquire(self, blocking, consumed) ==
    IF ~blocking
    THEN <<"done", Returned(consumed), <<>>>>
    ELSE IF ~consumed
         THEN <<"sleeping", NoReturn, <<SleepEvent("time.sleep", self.check_every_n_seconds)>>>>
         ELSE <<"done", Returned(TRUE), <<>>>>

\* mutant: the wait is the rate, not the polling interval
AAcquireWaitsRate(self, blocking, consumed) ==
    IF ~blocking
    THEN <<"done", Returned(consumed), <<>>>>
    ELSE IF ~consumed
         THEN <<"sleeping", NoReturn, <<SleepEvent("asyncio.sleep", self.requests_per_second)>>>>
         ELSE <<"done", Returned(TRUE), <<>>>>

\* aacquire after one await _aconsume() returned consumed
AAcquire(self, blocking, consumed) ==
    IF ~blocking
    THEN <<"done", Returned(consumed), <<>>>>
    ELSE IF ~consumed
         THEN <<"sleeping", NoReturn, <<SleepEvent("asyncio.sleep", self.check_every_n_seconds)>>>>
         ELSE <<"done", Returned(TRUE), <<>>>>

\* mutant: the error is caught and taken for a denial
AcquireSwallows(self, blocking) ==
    IF ~blocking
    THEN <<"done", Returned(FALSE), <<>>>>
    ELSE <<"sleeping", NoReturn, <<SleepEvent("time.sleep", self.check_every_n_seconds)>>>>

\* acquire when _consume() raised: nothing catches it, the call ends with the error
AcquireRaised(self, blocking) == <<"raised", NoReturn, <<>>>>

\* aacquire when await _aconsume() raised
AAcquireRaised(self, blocking) == <<"raised", NoReturn, <<>>>>

\* ------------------------------------------------------------- initial state

\* after construction: nothing stored, nobody calling
Start ==
    /\ time_result = <<0, 0>>
    /\ store = [k \in Keys |-> nil]
    /\ pc = [c \in Callers |-> "idle"]
    /\ call = [c \in Callers |-> nil]
    /\ trace = [c \in Callers |-> <<>>]
    /\ ret = [c \in Callers |-> NoReturn]
    /\ grants = [k \in Keys |-> <<>>]
    /\ drained = [k \in Keys |-> nil]
    /\ run = [k \in Keys |-> nil]
    /\ last = nil
    /\ back_steps = 0
    /\ calls = 0
    /\ began = [c \in Callers |-> nil]

\* one bucket under every explored configuration
Init ==
    /\ Start
    /\ credited = nil
    /\ \E size \in BucketSizes, rps \in Rates :
          limiter = [l \in Limiters |->
              IF l = "la" THEN Limiter("a", rps, 1, size)
                          ELSE Limiter("b", One \div 2, 2, One)]

\* one bucket under every explored configuration, its refill recorded
InitSkew ==
    /\ Start
    /\ credited = [k \in Keys |-> nil]
    /\ \E size \in BucketSizes, rps \in Rates :
          limiter = [l \in Limiters |->
              IF l = "la" THEN Limiter("a", rps, 1, size)
                          ELSE Limiter("b", One \div 2, 2, One)]

\* one bucket under every explored configuration that can grant and refill
InitLive ==
    /\ Start
    /\ credited = nil
    /\ \E size \in {z \in BucketSizes : z >= One}, rps \in {r \in Rates : r > 0} :
          limiter = [l \in Limiters |->
              IF l = "la" THEN Limiter("a", rps, 1, size)
                          ELSE Limiter("b", One \div 2, 2, One)]

\* two limiters with different prefixes: buckets of size 1, half a token a tick
InitClients ==
    /\ Start
    /\ credited = nil
    /\ limiter = [l \in Limiters |->
          IF l = "la" THEN Limiter("a", One \div 2, 1, One)
                      ELSE Limiter("b", One \div 2, 2, One)]

\* ------------------------------------------------------------- actions

\* a caller calls limiter.acquire(blocking=b) or limiter.aacquire(blocking=b)
Call(c, l, m, b) ==
    /\ pc[c] = "idle"
    /\ calls < MaxCalls
    /\ calls' = calls + 1
    /\ pc' = [pc EXCEPT ![c] = "attempting"]
    /\ call' = [call EXCEPT ![c] = [limiter |-> l, method |-> m, blocking |-> b]]
    /\ trace' = [trace EXCEPT ![c] = <<>>]
    /\ ret' = [ret EXCEPT ![c] = NoReturn]
    /\ began' = [began EXCEPT ![c] = nil]
    /\ UNCHANGED <<time_result, store, limiter, grants, drained, run, last, back_steps, credited>>

\* one pass of acquire: _consume() runs the script in the store, then the
\* call returns or goes to sleep
AcquireStep(c) ==
    /\ pc[c] = "attempting"
    /\ call[c].method = "acquire"
    /\ \E self \in {limiter[call[c].limiter]} :
       \E args \in {ExecuteLuaArgs(self)} :
       \E ex \in {LuaScript(store, args.key, args.argv, time_result)} :
       \E nxt \in {Acquire(self, call[c].blocking, Bool(ex.result))} :
           /\ store' = [store EXCEPT ![args.key] = ex.hash]
           /\ Observe(ex)
           /\ began' = [began EXCEPT ![c] = IF @ = nil THEN [at |-> ex.now, fresh |-> ex.fresh] ELSE @]
           /\ pc' = [pc EXCEPT ![c] = nxt[1]]
           /\ ret' = [ret EXCEPT ![c] = nxt[2]]
           /\ trace' = [trace EXCEPT ![c] = @ \o <<EvalEvent(args, ex.result)>> \o nxt[3]]
    /\ UNCHANGED <<time_result, limiter, call, back_steps, calls>>

\* one pass of aacquire: await _aconsume(), then return or await asyncio.sleep
AAcquireStep(c) ==
    /\ pc[c] = "attempting"
    /\ call[c].method = "aacquire"
    /\ \E self \in {limiter[call[c].limiter]} :
       \E args \in {ExecuteLuaAsyncArgs(self)} :
       \E ex \in {LuaScript(store, args.key, args.argv, time_result)} :
       \E nxt \in {AAcquire(self, call[c].blocking, Bool(ex.result))} :
           /\ store' = [store EXCEPT ![args.key] = ex.hash]
           /\ Observe(ex)
           /\ began' = [began EXCEPT ![c] = IF @ = nil THEN [at |-> ex.now, fresh |-> ex.fresh] ELSE @]
           /\ pc' = [pc EXCEPT ![c] = nxt[1]]
           /\ ret' = [ret EXCEPT ![c] = nxt[2]]
           /\ trace' = [trace EXCEPT ![c] = @ \o <<EvalEvent(args, ex.result)>> \o nxt[3]]
    /\ UNCHANGED <<time_result, limiter, call, back_steps, calls>>

\* client.eval raises (store unreachable, script error) before the script ran
EvalRaises(c) ==
    /\ pc[c] = "attempting"
    /\ LET self == limiter[call[c].limiter]
           sync == call[c].method = "acquire"
           args == IF sync THEN ExecuteLuaArgs(self) ELSE ExecuteLuaAsyncArgs(self)
           nxt == IF sync THEN AcquireRaised(self, call[c].blocking)
                          ELSE AAcquireRaised(self, call[c].blocking)
       IN  /\ pc' = [pc EXCEPT ![c] = nxt[1]]
           /\ ret' = [ret EXCEPT ![c] = nxt[2]]
           /\ trace' = [trace EXCEPT ![c] = @ \o <<EvalError(args)>> \o nxt[3]]
    /\ UNCHANGED <<time_result, store, limiter, call, grants, drained, run, last, back_steps, calls, began, credited>>

\* time.sleep / asyncio.sleep returns: the loop tests _consume() again
Wake(c) ==
    /\ pc[c] = "sleeping"
    /\ Len(Evals(trace[c])) < MaxPolls
    /\ pc' = [pc EXCEPT ![c] = "attempting"]
    /\ UNCHANGED <<time_result, store, limiter, call, trace, ret, grants, drained, run, last, back_steps, calls, began, credited>>

\* the call is over (returned or raised); the caller may call again
Finish(c) ==
    /\ pc[c] \in {"done", "raised"}
    /\ pc' = [pc EXCEPT ![c] = "idle"]
    /\ call' = [call EXCEPT ![c] = nil]
    /\ trace' = [trace EXCEPT ![c] = <<>>]
    /\ ret' = [ret EXCEPT ![c] = NoReturn]
    /\ began' = [began EXCEPT ![c] = nil]
    /\ UNCHANGED <<time_result, store, limiter, grants, drained, run, last, back_steps, calls, credited>>

InHorizon(t) == t % ExpireTicks <= MaxTicks /\ t \div ExpireTicks <= MaxDays

\* the store clock advances by one tick
Tick ==
    /\ LET t == Now + 1
           tr == <<t \div TicksPerSecond, t % TicksPerSecond>>
       IN  /\ InHorizon(t)
           /\ time_result' = tr
    /\ UNCHANGED <<store, limiter, pc, call, trace, ret, grants, drained, run, last, back_steps, calls, began, credited>>

\* a day passes without the clock being read
DayPasses ==
    /\ InHorizon(Now + ExpireTicks)
    /\ time_result' = <<time_result[1] + ExpireSeconds, time_result[2]>>
    /\ UNCHANGED <<store, limiter, pc, call, trace, ret, grants, drained, run, last, back_steps, calls, began, credited>>

\* the store clock is set back by one tick (a clock adjustment)
ClockStepsBack ==
    /\ Now % ExpireTicks > 0
    /\ back_steps < MaxBackSteps
    /\ back_steps' = back_steps + 1
    /\ LET t == Now - 1
       IN  time_result' = <<t \div TicksPerSecond, t % TicksPerSecond>>
    /\ grants' = [k \in Keys |-> <<>>]
    /\ UNCHANGED <<store, limiter, pc, call, trace, ret, drained, run, last, calls, began, credited>>

\* another client of the store removes one field of a live hash (hdel); a hash
\* left without fields is no key
HDel(key, field) ==
    /\ Live(store, key, Now)
    /\ store[key][field] # nil
    /\ store' = [store EXCEPT ![key] =
            IF \A f \in {"tokens", "last_refill"} \ {field} : @[f] = nil
            THEN nil
            ELSE [@ EXCEPT ![field] = nil]]
    /\ UNCHANGED <<time_result, limiter, pc, call, trace, ret, grants, drained, run, last, back_steps, calls, began, credited>>

\* one caller, a clock that only advances
Next ==
    \/ \E m \in {"acquire", "aacquire"}, b \in BOOLEAN : Call("c1", "la", m, b)
    \/ AcquireStep("c1")
    \/ AAcquireStep("c1")
    \/ EvalRaises("c1")
    \/ Wake("c1")
    \/ Finish("c1")
    \/ Tick

Spec == Init /\ [][Next]_vars

\* one caller making non-blocking calls, a clock that advances, idles for a
\* day, and is set back
NextClock ==
    \/ Call("c1", "la", "acquire", FALSE)
    \/ AcquireStep("c1")
    \/ Finish("c1")
    \/ Tick
    \/ DayPasses
    \/ ClockStepsBack

SpecClock == Init /\ [][NextClock]_vars

\* the ticks it takes to refill one token, at a positive rate
RefillTicks(self) == (One + self.requests_per_second - 1) \div self.requests_per_second

\* a blocking call, made while the explored horizon leaves the time to refill
\* one token
CallInTime(c, l, m) ==
    /\ Now + RefillTicks(limiter[l]) <= MaxTicks
    /\ Call(c, l, m, TRUE)

\* time.sleep / asyncio.sleep returns after store time has passed: the loop
\* tests _consume() again
WakeLater(c) ==
    /\ pc[c] = "sleeping"
    /\ Now > last.exec.now
    /\ pc' = [pc EXCEPT ![c] = "attempting"]
    /\ UNCHANGED <<time_result, store, limiter, call, trace, ret, grants, drained, run, last, back_steps, calls, began, credited>>

\* one caller, alone on its key, no store failure, a clock that keeps advancing
NextLive ==
    \/ \E m \in {"acquire", "aacquire"} : Call("c1", "la", m, FALSE)
    \/ \E m \in {"acquire", "aacquire"} : CallInTime("c1", "la", m)
    \/ AcquireStep("c1")
    \/ AAcquireStep("c1")
    \/ WakeLater("c1")
    \/ Finish("c1")
    \/ Tick

\* the caller runs, its sleeps end, the store clock advances
SpecLive ==
    /\ InitLive /\ [][NextLive]_vars
    /\ WF_vars(AcquireStep("c1"))
    /\ WF_vars(AAcquireStep("c1"))
    /\ WF_vars(WakeLater("c1"))
    /\ WF_vars(Tick)

\* one caller, a clock that advances and is set back
NextSkew ==
    \/ \E b \in BOOLEAN : Call("c1", "la", "acquire", b)
    \/ AcquireStep("c1")
    \/ Wake("c1")
    \/ Finish("c1")
    \/ Tick
    \/ ClockStepsBack

SpecSkew == InitSkew /\ [][NextSkew]_vars

\* one caller making non-blocking calls on a store that loses fields and keys
NextStore ==
    \/ Call("c1", "la", "acquire", FALSE)
    \/ AcquireStep("c1")
    \/ Finish("c1")
    \/ Tick
    \/ DayPasses
    \/ \E f \in {"tokens", "last_refill"} : HDel("a:rate_limit", f)

SpecStore == Init /\ [][NextStore]_vars

\* two concurrent callers, one through acquire and one through aacquire
NextClients ==
    \/ \E l \in Limiters, b \in BOOLEAN : Call("c1", l, "acquire", b)
    \/ \E b \in BOOLEAN : Call("c2", "la", "aacquire", b)
    \/ \E c \in Callers : AcquireStep(c)
    \/ \E c \in Callers : AAcquireStep(c)
    \/ \E c \in Callers : EvalRaises(c)
    \/ \E c \in Callers : Wake(c)
    \/ \E c \in Callers : Finish(c)
    \/ Tick

SpecClients == InitClients /\ [][NextClients]_vars

\* ------------------------------------------------------------- claims

\* the configuration a key's bucket is run with
ConfigOf(k) == limiter[CHOOSE l \in Limiters : limiter[l].key_prefix \o ":rate_limit" = k]
Size(k) == ConfigOf(k).max_bucket_size
Rate(k) == ConfigOf(k).requests_per_second

\* C1. Rate ceiling: with a positive rate, a clock that does not step back and
\* no expiry, the grants whose script ran at store times within any window
\* [t0, t1] number at most max_bucket_size + requests_per_second * (t1 - t0).
\* grants[k] holds the grant times since the key was last created and the clock
\* last stepped back; the tightest windows begin and end at a grant.
C1_RateCeiling ==
    \A k \in Keys :
        Rate(k) > 0 =>
            \A i \in 1..Len(grants[k]) : \A j \in i..Len(grants[k]) :
                (j - i + 1) * One <= Size(k) + Rate(k) * (grants[k][j] - grants[k][i])

\* a window of more than one grant, some of them paid by refill, that meets the
\* ceiling exactly
C1_Witness ==
    \E k \in Keys :
        /\ Rate(k) > 0
        /\ \E i \in 1..Len(grants[k]) : \E j \in i..Len(grants[k]) :
              /\ grants[k][j] > grants[k][i]
              /\ (j - i + 1) * One = Size(k) + Rate(k) * (grants[k][j] - grants[k][i])

Count(seq, v) == Cardinality({i \in 1..Len(seq) : seq[i] = v})

\* C3. Burst capacity: of the attempts made on a fresh key with no store time
\* elapsing, at most max_bucket_size are granted (a size below 0 grants none);
\* when max_bucket_size is a positive whole number M, the first M are granted
\* and every later one is denied.
C3_BurstCapacity ==
    \A k \in Keys :
        run[k] # nil =>
            LET res == run[k].results
                M == Size(k)
            IN  /\ Count(res, 1) * One <= (IF M < 0 THEN 0 ELSE M)
                /\ (M > 0 /\ M % One = 0) =>
                       \A i \in 1..Len(res) : (res[i] = 1) <=> (i * One <= M)

\* a burst of 2 on a bucket of size 2, and the third attempt denied
C3_Witness ==
    \E k \in Keys :
        /\ run[k] # nil
        /\ Size(k) = 2 * One
        /\ run[k].results = <<1, 1, 0>>

\* C4. Refill saturates: the stored tokens never exceed max_bucket_size.
C4_RefillSaturates ==
    \A k \in Keys : store[k] # nil => tonumber(store[k].tokens) <= Size(k)

\* an execution whose refill would have gone over the size
C4_Witness ==
    /\ last # nil
    /\ last.exec.read + last.exec.refill > Size(last.exec.key)
    /\ store[last.exec.key] # nil
    /\ tonumber(store[last.exec.key].tokens) = Size(last.exec.key)

\* C5. Refill after drain: with a positive rate and a size of at least 1, once
\* a grant left exactly 0 tokens at store time t0 and every attempt since was
\* denied, an attempt at or after t0 + 1/requests_per_second is granted.  On a
\* fresh key the first attempt is granted, and an attempt of the same store
\* time as the draining grant, with no time elapsed, is denied.
C5_RefillAfterDrain ==
    last # nil =>
        LET ex == last.exec
            ok == Rate(ex.key) > 0 /\ Size(ex.key) >= One
        IN  /\ (ok /\ last.drained # nil
                   /\ (ex.now - last.drained.at) * Rate(ex.key) >= One) => ex.result = 1
            /\ (ok /\ ex.fresh) => ex.result = 1
            /\ (ok /\ ~ex.fresh /\ last.drained # nil /\ ex.elapsed = 0
                   /\ ex.now = last.drained.at) => ex.result = 0

\* a bucket drained, then polled and denied, and granted again just 1/r later
C5_Witness ==
    /\ last # nil
    /\ last.drained # nil
    /\ ~last.exec.fresh
    /\ Rate(last.exec.key) > 0
    /\ (last.exec.now - last.drained.at) * Rate(last.exec.key) = One
    /\ last.exec.elapsed < last.exec.now - last.drained.at
    /\ last.exec.result = 1

\* ------------------------------------------------------------- claims on the calls

InCall(c) == pc[c] # "idle"
SelfOf(c) == limiter[call[c].limiter]
\* the outcomes client.eval returned to the call, in order
Outcomes(c) == [i \in 1..Len(Evals(trace[c])) |->
                   IF "out" \in DOMAIN Evals(trace[c])[i] THEN Evals(trace[c])[i].out ELSE 2]
IsError(e) == e.op = "eval" /\ "raised" \in DOMAIN e
IsOutcome(e, out) == e.op = "eval" /\ ~IsError(e) /\ e.out = out

\* the non-blocking calls that raced for the token a fresh key of size 1 holds:
\* the call whose script created the key, and those whose script ran less than
\* 1/requests_per_second of store time after it
Racers(k) ==
    {c \in Callers :
        /\ pc[c] = "done" /\ ~call[c].blocking
        /\ SelfOf(c).key_prefix \o ":rate_limit" = k
        /\ \E d \in Callers :
              /\ pc[d] = "done" /\ ~call[d].blocking
              /\ SelfOf(d).key_prefix \o ":rate_limit" = k
              /\ began[d].fresh
              /\ began[c].at >= began[d].at
              /\ (began[c].at - began[d].at) * Rate(k) < One}

\* C2. Concurrent race: of the non-blocking calls racing on one fresh key of
\* size 1, with less than 1/requests_per_second passing, exactly one returns
\* true and all others return false.
C2_ConcurrentRace ==
    \A k \in Keys :
        (Size(k) = One /\ Rate(k) > 0 /\ Racers(k) # {}) =>
            Cardinality({c \in Racers(k) : ret[c] = Returned(TRUE)}) = 1
            /\ \A c \in Racers(k) : ret[c] \in {Returned(TRUE), Returned(FALSE)}

\* two calls, one through acquire and one through aacquire, raced: one won
C2_Witness ==
    \E k \in Keys :
        /\ Size(k) = One /\ Rate(k) > 0
        /\ Racers(k) = Callers
        /\ \E c \in Callers : ret[c] = Returned(TRUE) /\ call[c].method = "aacquire"
        /\ \E c \in Callers : ret[c] = Returned(FALSE) /\ call[c].method = "acquire"

\* the caller whose attempt this step is, if any
Attempts(c) == pc[c] = "attempting" /\ pc'[c] # "attempting"

\* C6. Key independence: the key of every attempt is key_prefix followed by
\* ':rate_limit'; limiters of different prefixes have different keys; an
\* attempt by one limiter leaves the bucket of every other key as it was.
C6_KeyIndependence ==
    [][ /\ \A l \in Limiters : BucketKey(limiter[l]) = limiter[l].key_prefix \o ":rate_limit"
        /\ \A l, m \in Limiters :
              limiter[l].key_prefix # limiter[m].key_prefix =>
                  BucketKey(limiter[l]) # BucketKey(limiter[m])
        /\ \A c \in Callers :
              Attempts(c) =>
                  /\ \A i \in 1..Len(trace'[c]) :
                        trace'[c][i].op = "eval" =>
                            trace'[c][i].args.key = SelfOf(c).key_prefix \o ":rate_limit"
                  /\ \A k \in Keys :
                        k # SelfOf(c).key_prefix \o ":rate_limit" => store'[k] = store[k]
      ]_vars

\* both buckets exist, and the latest attempt was made on one of them
C6_Witness ==
    /\ \A k \in Keys : store[k] # nil
    /\ last # nil
    /\ tonumber(store["a:rate_limit"].last_refill) # tonumber(store["b:rate_limit"].last_refill)
    /\ \E c \in Callers : pc[c] = "done" /\ ret[c] = Returned(FALSE)

\* C7. Non-blocking acquisition: acquire(blocking=False) and
\* aacquire(blocking=False) invoke the script once, never sleep, and return
\* true exactly when that invocation returned success, false when denial.
C7_NonBlocking ==
    \A c \in Callers :
        (InCall(c) /\ ~call[c].blocking) =>
            /\ pc[c] # "sleeping"
            /\ Sleeps(trace[c]) = <<>>
            /\ Len(Evals(trace[c])) <= 1
            /\ (pc[c] = "attempting") <=> (trace[c] = <<>>)
            /\ pc[c] = "done" =>
                  /\ Len(trace[c]) = 1
                  /\ IsOutcome(trace[c][1], 1) => ret[c] = Returned(TRUE)
                  /\ IsOutcome(trace[c][1], 0) => ret[c] = Returned(FALSE)
                  /\ IsOutcome(trace[c][1], 1) \/ IsOutcome(trace[c][1], 0)

\* a non-blocking acquire returned false while a non-blocking aacquire returned true
C7_Witness ==
    \E c, d \in Callers :
        /\ pc[c] = "done" /\ ~call[c].blocking /\ call[c].method = "acquire"
        /\ ret[c] = Returned(FALSE)
        /\ pc[d] = "done" /\ ~call[d].blocking /\ call[d].method = "aacquire"
        /\ ret[d] = Returned(TRUE)

\* C8. Blocking acquisition protocol: a blocking call denied k times and then
\* granted has invoked the script k+1 times and slept k times, each sleep of
\* check_every_n_seconds, each right after a denial and before the next
\* invocation; it returns true, and never false.
C8_BlockingProtocol ==
    \A c \in Callers :
        (InCall(c) /\ call[c].blocking) =>
            LET t == trace[c]
            IN  /\ \A i \in 1..Len(t) :
                      /\ i % 2 = 1 => t[i].op = "eval"
                      /\ i % 2 = 0 =>
                            /\ t[i].op = "sleep"
                            /\ t[i].secs = SelfOf(c).check_every_n_seconds
                            /\ IsOutcome(t[i - 1], 0)
                      /\ IsOutcome(t[i], 0) => (i < Len(t) /\ t[i + 1].op = "sleep")
                      /\ IsOutcome(t[i], 1) => (i = Len(t) /\ pc[c] = "done")
                /\ ret[c] # Returned(FALSE)
                /\ pc[c] = "sleeping" => (t # <<>> /\ t[Len(t)].op = "sleep")
                /\ (t # <<>> /\ t[Len(t)].op = "sleep") => pc[c] \in {"sleeping", "attempting"}
                /\ pc[c] = "done" =>
                      /\ ret[c] = Returned(TRUE)
                      /\ IsOutcome(t[Len(t)], 1)
                      /\ Len(Evals(t)) = Len(Sleeps(t)) + 1

\* a blocking call denied twice and then granted
C8_Witness ==
    \E c \in Callers :
        /\ pc[c] = "done" /\ call[c].blocking
        /\ Outcomes(c) = <<0, 0, 1>>
        /\ Len(Sleeps(trace[c])) = 2

\* a trace without what tells time.sleep from asyncio.sleep
Plain(t) == [i \in 1..Len(t) |->
                IF t[i].op = "sleep" THEN [op |-> "sleep", secs |-> t[i].secs]
                ELSE IF IsError(t[i]) THEN [op |-> "eval", args |-> t[i].args, raised |-> TRUE]
                ELSE [op |-> "eval", args |-> t[i].args, out |-> t[i].out]]

\* C9. Sync/async equivalence: a call through acquire and a call through
\* aacquire on limiters of the same configuration, with the same blocking
\* flag, that got the same script outcomes, made the same script invocations
\* (script, 1 key, key_prefix:rate_limit, max_bucket_size,
\* requests_per_second) and the same waits, and returned the same value.
C9_SyncAsyncEquivalence ==
    /\ \A c \in Callers :
          InCall(c) =>
              \A i \in 1..Len(trace[c]) :
                  trace[c][i].op = "eval" =>
                      trace[c][i].args =
                          [script |-> "_LUA_SCRIPT", numkeys |-> 1,
                           key |-> SelfOf(c).key_prefix \o ":rate_limit",
                           argv |-> <<SelfOf(c).max_bucket_size,
                                      SelfOf(c).requests_per_second>>]
    /\ \A c, d \in Callers :
          (/\ InCall(c) /\ InCall(d)
           /\ call[c].method = "acquire" /\ call[d].method = "aacquire"
           /\ SelfOf(c) = SelfOf(d)
           /\ call[c].blocking = call[d].blocking
           /\ Outcomes(c) = Outcomes(d)) =>
              /\ Plain(trace[c]) = Plain(trace[d])
              /\ ret[c] = ret[d]

\* both calls were denied once, slept, and were granted
C9_Witness ==
    \E c, d \in Callers :
        /\ call[c] # nil /\ call[d] # nil
        /\ call[c].method = "acquire" /\ call[d].method = "aacquire"
        /\ call[c].limiter = call[d].limiter
        /\ call[c].blocking /\ call[d].blocking
        /\ pc[c] = "done" /\ pc[d] = "done"
        /\ Outcomes(c) = <<0, 1>> /\ Outcomes(d) = <<0, 1>>

\* C10. Store failure propagation: a script invocation that fails ends the
\* call with the error at that attempt: it is the call's last event, no sleep
\* and no invocation follows, nothing is returned; only a denial is retried.
C10_FailurePropagation ==
    \A c \in Callers :
        InCall(c) =>
            LET t == trace[c]
            IN  /\ \A i \in 1..Len(t) :
                      IsError(t[i]) => (i = Len(t) /\ pc[c] = "raised")
                /\ pc[c] = "raised" =>
                      /\ t # <<>> /\ IsError(t[Len(t)])
                      /\ ret[c] = NoReturn
                /\ \A i \in 1..Len(t) - 1 :
                      t[i].op = "eval" => IsOutcome(t[i], 0)

\* a blocking call failed at its second invocation, a non-blocking one at its first
C10_Witness ==
    \E c, d \in Callers :
        /\ pc[c] = "raised" /\ call[c].blocking /\ Len(Evals(trace[c])) = 2
        /\ pc[d] = "raised" /\ ~call[d].blocking

\* ------------------------------------------------------------- claims on the stored state

\* C11. last_refill monotonicity: from one script execution to the next on the
\* same key, the stored last_refill never decreases, also when the later
\* execution reads a store time earlier than the stored last_refill.
C11_LastRefillMonotone ==
    [][ \A k \in Keys :
            (store[k] # nil /\ store'[k] # nil) =>
                tonumber(store'[k].last_refill) >= tonumber(store[k].last_refill)
      ]_vars

\* C12 as claimed. Token bounds: after any script execution, for every
\* max_bucket_size and requests_per_second the constructor accepts, the stored
\* tokens satisfy 0 <= tokens <= max_bucket_size.
C12_TokenBounds ==
    \A k \in Keys :
        store[k] # nil =>
            /\ 0 <= tonumber(store[k].tokens)
            /\ tonumber(store[k].tokens) <= Size(k)

\* C12, amended. Token bounds: after any script execution, for every
\* max_bucket_size >= 0 and requests_per_second >= 0 and every elapsed time
\* (a backward clock step and a day of idling included), the stored tokens
\* satisfy 0 <= tokens <= max_bucket_size.
C12_TokenBoundsValidConfig ==
    \A k \in Keys :
        (store[k] # nil /\ Size(k) >= 0 /\ Rate(k) >= 0) =>
            /\ 0 <= tonumber(store[k].tokens)
            /\ tonumber(store[k].tokens) <= Size(k)

\* after the clock was set back, a denial left a part of a token, strictly
\* between the two bounds
C12_Witness ==
    /\ last # nil
    /\ back_steps > 0
    /\ Size(last.exec.key) >= One /\ Rate(last.exec.key) > 0
    /\ last.exec.result = 0
    /\ store[last.exec.key] # nil
    /\ 0 < tonumber(store[last.exec.key].tokens)
    /\ tonumber(store[last.exec.key].tokens) < Size(last.exec.key)

\* the caller whose script execution this step is, if any
Executes(c) == pc[c] = "attempting" /\ pc'[c] \in {"done", "sleeping"}

\* what client.eval returned to the call in this step
Outcome(c) == Evals(trace'[c])[Len(Evals(trace'[c]))].out

\* C13. One script execution against a reference step: with a stored state
\* (tokens, last_refill) and store time now, let
\* t = min(max_bucket_size, tokens + max(0, now - last_refill) * requests_per_second);
\* the execution returns success exactly when t >= 1, and in both outcomes
\* writes tokens = t - 1 on success and t on denial, last_refill = now, and
\* sets the key's time to live to 86400 seconds.
C13_ReferenceStep ==
    [][ \A c \in Callers :
            LET k == SelfOf(c).key_prefix \o ":rate_limit"
                M == SelfOf(c).max_bucket_size
                r == SelfOf(c).requests_per_second
                d == Now - store[k].last_refill.str
                sum == store[k].tokens.str + (IF d > 0 THEN d ELSE 0) * r
                t == IF M <= sum THEN M ELSE sum
            IN  (Executes(c) /\ store[k] # nil /\ Now < store[k].expire_at) =>
                    /\ (Outcome(c) = 1) <=> (t >= One)
                    /\ Outcome(c) \in {0, 1}
                    /\ store'[k].tokens.str = (IF t >= One THEN t - One ELSE t)
                    /\ store'[k].last_refill.str = Now
                    /\ store'[k].expire_at - Now = 86400 * TicksPerSecond
      ]_vars

\* an execution on a stored state that was refilled to less than the size and
\* granted, leaving part of the refill
C13_Witness ==
    /\ last # nil
    /\ ~last.exec.fresh
    /\ last.exec.elapsed > 0
    /\ last.exec.refill > 0
    /\ last.exec.read + last.exec.refill < Size(last.exec.key)
    /\ last.exec.result = 1
    /\ last.exec.tokens > 0

\* what a script execution finds under the key: nothing, or a hash lacking a field
Absent(k) ==
    \/ store[k] = nil
    \/ Now >= store[k].expire_at
    \/ store[k].tokens = nil
    \/ store[k].last_refill = nil

\* C14. Absent state is a full bucket: a script execution on a key with no
\* stored record (never used, or reclaimed by expiry), or with the tokens or
\* the last_refill field missing, does what it does on the stored state
\* tokens = max_bucket_size, last_refill = current store time: it is granted
\* exactly when max_bucket_size >= 1, and leaves tokens = max_bucket_size - 1
\* when granted and max_bucket_size when denied.
C14_AbsentIsFull ==
    [][ \A c \in Callers :
            LET k == SelfOf(c).key_prefix \o ":rate_limit"
                M == SelfOf(c).max_bucket_size
                r == SelfOf(c).requests_per_second
                full == [tokens |-> [str |-> M], last_refill |-> [str |-> Now],
                         expire_at |-> Now + 1]
                onfull == LuaScript([store EXCEPT ![k] = full], k, <<M, r>>, time_result)
            IN  (Executes(c) /\ Absent(k)) =>
                    /\ (Outcome(c) = 1) <=> (M >= One)
                    /\ Outcome(c) \in {0, 1}
                    /\ store'[k].tokens.str = (IF M >= One THEN M - One ELSE M)
                    /\ store'[k].last_refill.str = Now
                    /\ store'[k] = onfull.hash
                    /\ Outcome(c) = onfull.result
      ]_vars

\* an execution that found an emptied bucket without its last_refill field,
\* and granted as on a full one
C14_Witness ==
    /\ last # nil
    /\ last.exec.fresh
    /\ last.exec.bucket[1] # nil
    /\ last.exec.bucket[1].str = 0
    /\ last.exec.bucket[2] = nil
    /\ last.exec.result = 1
    /\ last.exec.tokens = Size(last.exec.key) - One
    /\ last.exec.now > 0

\* C15. Backward clock grants no refill: a script execution whose store time
\* is earlier than the stored last_refill adds zero refill (tokens change only
\* by the possible debit of 1), and over any sequence of executions in which
\* the store clock steps backward and later forward again, the total refill
\* added to the bucket never exceeds requests_per_second times the difference
\* between the largest and the smallest store time read.
C15_BackwardClockNoRefill ==
    /\ (last # nil /\ ~last.exec.fresh /\ last.exec.now < last.exec.bucket[2].str) =>
          /\ last.exec.refill = 0
          /\ last.exec.tokens = last.exec.read - last.exec.result * One
    /\ \A k \in Keys :
          (credited # nil /\ credited[k] # nil /\ Rate(k) >= 0) =>
              credited[k].refill <= Rate(k) * (credited[k].hi - credited[k].lo)

\* ------------------------------------------------------------- claims on progress

\* C16. Blocking acquisition eventually succeeds when alone: with
\* requests_per_second > 0 and max_bucket_size >= 1, a store clock that keeps
\* advancing, no store failure and no other caller on the key, every blocking
\* acquire / aacquire eventually returns true, from any reachable bucket state.
C16_BlockingEventuallyGranted ==
    \A c \in Callers :
        (InCall(c) /\ call[c].blocking
            /\ SelfOf(c).requests_per_second > 0 /\ SelfOf(c).max_bucket_size >= One)
        ~> (pc[c] = "done" /\ ret[c] = Returned(TRUE))

\* a blocking call on a drained bucket that polled, slept, and was granted
C16_Witness ==
    \E c \in Callers :
        /\ pc[c] = "done" /\ call[c].blocking
        /\ ~began[c].fresh
        /\ Len(Evals(trace[c])) >= 2
        /\ ret[c] = Returned(TRUE)
        /\ SelfOf(c).requests_per_second > 0

\* ------------------------------------------------------------- claims on configurations

\* C17. Non-positive rate means chronic denial: with requests_per_second <= 0
\* the stored tokens never increase from one script execution to the next, so
\* once an attempt on the key was denied every later attempt on it is denied
\* (a non-blocking call returns false, a blocking call sleeps on), and no error
\* is raised, however much time passes between attempts.
C17_ChronicDenial ==
    [][ \A c \in Callers :
            LET k == SelfOf(c).key_prefix \o ":rate_limit"
            IN  (Executes(c) /\ SelfOf(c).requests_per_second <= 0) =>
                    /\ store[k] # nil => store'[k].tokens.str <= store[k].tokens.str
                    /\ (last # nil /\ last.exec.key = k /\ last.exec.result = 0) =>
                          /\ Outcome(c) = 0
                          /\ ~call[c].blocking => (pc'[c] = "done" /\ ret'[c] = Returned(FALSE))
                          /\ call[c].blocking => pc'[c] = "sleeping"
                    /\ pc'[c] # "raised"
      ]_vars

\* C18. Bucket size below one never grants: with max_bucket_size < 1 (0 and
\* below included) no script execution is granted, whatever the rate, the
\* bucket state and the elapsed time; a non-blocking call returns false, a
\* blocking call never returns, and the limiter raises no error of its own.
C18_SmallBucketNeverGrants ==
    /\ \A k \in Keys : Size(k) < One => grants[k] = <<>>
    /\ \A c \in Callers :
          (InCall(c) /\ SelfOf(c).max_bucket_size < One) =>
              /\ \A i \in 1..Len(trace[c]) : ~IsOutcome(trace[c][i], 1)
              /\ ret[c] \in {NoReturn, Returned(FALSE)}
              /\ call[c].blocking => pc[c] # "done"
              /\ (~call[c].blocking /\ pc[c] = "done") => ret[c] = Returned(FALSE)
              /\ pc[c] = "raised" => IsError(trace[c][Len(trace[c])])

\* a blocking call on a bucket of half a token, refilled at a token a tick,
\* denied at three store times and still waiting
C18_Witness ==
    \E c \in Callers :
        /\ InCall(c) /\ call[c].blocking
        /\ SelfOf(c).max_bucket_size = One \div 2
        /\ SelfOf(c).requests_per_second = One
        /\ Outcomes(c) = <<0, 0, 0>>
        /\ pc[c] = "sleeping"
        /\ Now - began[c].at >= 2

\* C19. No fairness between callers.  The claim is one of possibility: a
\* caller that started waiting earlier CAN be denied while a later caller is
\* granted, and THERE IS a fair execution in which one caller is never
\* granted.  The state below is such an overtaking: a blocking aacquire that
\* began first was denied at two store times and waits on, while an acquire
\* that began after it was granted the token refilled in between.
C19_Overtaken ==
    \E c, d \in Callers :
        /\ InCall(c) /\ call[c].blocking /\ pc[c] = "sleeping"
        /\ Outcomes(c) = <<0, 0>>
        /\ InCall(d) /\ pc[d] = "done" /\ ret[d] = Returned(TRUE)
        /\ call[d].limiter = call[c].limiter
        /\ began[d].at > began[c].at
        /\ ~began[d].fresh

\* C20. Expiry is unobservable: re-creating a full bucket after the record ran
\* out of its time to live never grants more than continuous refill would
\* have; for every configuration, the outcome of an attempt that finds the
\* record expired equals its outcome on the record kept for ever, which is
\* granted exactly when
\* min(max_bucket_size, tokens + max(0, now - last_refill) * requests_per_second) >= 1.
C20_ExpiryUnobservable ==
    [][ \A c \in Callers :
            LET k == SelfOf(c).key_prefix \o ":rate_limit"
                M == SelfOf(c).max_bucket_size
                r == SelfOf(c).requests_per_second
                d == Now - store[k].last_refill.str
                sum == store[k].tokens.str + (IF d > 0 THEN d ELSE 0) * r
                t == IF M <= sum THEN M ELSE sum
            IN  (Executes(c) /\ store[k] # nil /\ Now >= store[k].expire_at) =>
                    ((Outcome(c) = 1) <=> (t >= One))
      ]_vars

====
